---- MODULE Spec2Model ----
(***************************************************************************)
(* Model of the OpenClaw usage-monitor collector, src/collector/collect.py *)
(*                                                                         *)
(* The collector is one single-threaded loop (main).  Every tick reads the *)
(* wall clock, refreshes two cached process identifiers when they are more *)
(* than 30 s old, fetches a status sample (carrying the last good one      *)
(* forward when the fetch raises), resolves network byte counters          *)
(* (per-process nettop first, system-wide netstat as fallback), writes one *)
(* row with INSERT OR REPLACE, prunes rows older than keep_days, commits   *)
(* and sleeps to the interval.  The loop has no exit of its own: the       *)
(* process ends when a statement of the persistence layer raises, when a   *)
(* signal arrives (only KeyboardInterrupt is handled, lines 338-342), or   *)
(* when the process is killed.                                             *)
(*                                                                         *)
(* Encoding of Python values                                               *)
(*   Optional[T]  : <<>> is None (SQL NULL), <<v>> is the value v.         *)
(*   a JSON object where a scalar is expected : a tuple of length 2.       *)
(*   wall-clock instants : a pair [d |-> day, ms |-> millisecond of day].  *)
(*     The program computes in unbounded integers of milliseconds; 90 days *)
(*     of milliseconds exceed TLC's 32-bit integers, so an instant         *)
(*     t (ms) is kept as (t \div DayMs, t % DayMs) and the arithmetic the  *)
(*     program does on instants is done exactly on that representation.    *)
(***************************************************************************)
EXTENDS Integers, Sequences, FiniteSets, TLC

VARIABLES
    pc,                 \* position of main's loop (or "crashed" / "raised")
    clock,              \* the host's wall clock (time.time(), now_ms())
    keep_days,          \* args.keep_days
    ticks,              \* number of ticks started (bounds the exploration)
    t0, ts,             \* main: t0 = time.time(), ts = now_ms() of this tick
    gateway_pid, browser_pid, last_pid_refresh,    \* identity cache
    last_status_err_at, \* time of the last status warning printed
    last_good_status,   \* carry-forward state
    s,                  \* the effective status sample of this tick
    net_rx, net_tx,     \* the effective network sample of this tick
    txn,                \* rows as the open connection sees them
    store,              \* rows durably committed
    calls,              \* ghost: adapters invoked so far in this tick, in order
    live,               \* ghost: what the status fetch of this tick did
    seen,               \* ghost: latest meaningful live sample of this run
    nres,               \* ghost: the network adapters' answers of this tick
    warned,             \* ghost: tick start times at which a warning was printed
    halt,               \* how the process ended: where, why, exit status
    op,                 \* ghost: the last direct call made by a unit harness
    refreshed,          \* ghost: the identity adapters' answers at the refresh
                        \*        this tick has just made
    done                \* ghost: ts_ms of the ticks of this run that committed,
                        \*        in order

vars == << pc, clock, keep_days, ticks, t0, ts, gateway_pid, browser_pid,
           last_pid_refresh, last_status_err_at, last_good_status, s,
           net_rx, net_tx, txn, store, calls, live, seen, nres, warned,
           halt, op, refreshed, done >>

-----------------------------------------------------------------------------
(* Bounds of the exploration *)

MaxTicks == 3

-----------------------------------------------------------------------------
(* Python values *)

None == << >>

Some(v) == << v >>

\* bool(x) of an Optional[str]: None and "" are falsy
TruthyStr(v) == v /= None /\ v /= << "" >>

\* bool(x) of an Optional[int]: None and 0 are falsy
TruthyInt(v) == v /= None /\ v /= << 0 >>

\* Python's `a or b` on Optional[int]
OrInt(a, b) == IF TruthyInt(a) THEN a ELSE b

\* A value sqlite3 can bind: None, int, float, str, bytes.  A JSON object or
\* array (a tuple of length 2 here) makes Connection.execute raise.
Bindable(v) == Len(v) <= 1

-----------------------------------------------------------------------------
(* Wall-clock instants *)

DayMs == 86400 * 1000

Time(d, ms) == [d |-> d, ms |-> ms]

TAdd(t, n) == [d |-> t.d + ((t.ms + n) \div DayMs), ms |-> (t.ms + n) % DayMs]

TSubDays(t, k) == [d |-> t.d - k, ms |-> t.ms]

TLess(a, b) == a.d < b.d \/ (a.d = b.d /\ a.ms < b.ms)

\* a - b in milliseconds, for instants less than 24 days apart
TDiff(a, b) == (a.d - b.d) * DayMs + (a.ms - b.ms)

\* a - b > n milliseconds
TAfter(a, b, n) == TLess(TAdd(b, n), a)

\* now_ms() / time.time(): both read the host clock
now_ms == clock

-----------------------------------------------------------------------------
(* Status source: `openclaw status --json` *)

\* StatusSample(None, None, None, None, None, None, None, None)
AbsentStatus ==
    [session_key |-> None, model |-> None, input_tokens |-> None,
     output_tokens |-> None, total_tokens |-> None, remaining_tokens |-> None,
     context_tokens |-> None, percent_used |-> None]

\* One element of status["sessions"]["recent"]; a missing key is None.
Session(key, model, inp, outp, total, remaining, context, percent, updated) ==
    [key |-> key, model |-> model, inputTokens |-> inp, outputTokens |-> outp,
     totalTokens |-> total, remainingTokens |-> remaining,
     contextTokens |-> context, percentUsed |-> percent, updatedAt |-> updated]

\* `s = pick_primary_session(status) or {}`: every s.get(...) of {} is None
NoSession ==
    Session(None, None, None, None, None, None, None, None, None)

\* identifier and total present
SessA == Session(Some("a"), Some("m1"), Some(3), Some(2), Some(5), Some(95),
                 Some(100), Some(5), Some(100))

\* no identifier, total present and zero
SessB == Session(None, Some("m2"), None, None, Some(0), None,
                 None, None, Some(200))

\* neither identifier nor total, other fields present
SessC == Session(None, Some("m1"), Some(3), None, None, None,
                 Some(100), None, Some(150))

\* identifier and total present, model reported as a JSON object
SessD == Session(Some("d"), << "id", "m1" >>, Some(1), Some(1), Some(2), None,
                 None, None, Some(150))

\* What one run of the status command can give: it times out (25 s), exits
\* non-zero or prints something json.loads / parse_status_sample rejects
\* ("error"), or prints a status document with these recent sessions.
StatusOut(kind, took, recent) == [kind |-> kind, took |-> took, recent |-> recent]

StatusOutputs ==
    { StatusOut("timeout", 25000, << >>),
      StatusOut("error", 40, << >>),
      StatusOut("json", 40, << >>),
      StatusOut("json", 40, << SessA >>),
      StatusOut("json", 40, << SessA, SessB >>),
      StatusOut("json", 40, << SessC, SessD >>),
      StatusOut("json", 40, << SessD >>) }

\* r.get("updatedAt", 0)
UpdatedAt(r) == IF r.updatedAt = None THEN 0 ELSE r.updatedAt[1]

\* sorted(recent, key=updatedAt, reverse=True): Python's sort is stable, also
\* with reverse=True, so equal keys keep the order of the input.
RECURSIVE InsertDesc(_, _)
InsertDesc(x, l) ==
    IF l = << >> THEN << x >>
    ELSE IF UpdatedAt(Head(l)) >= UpdatedAt(x)
         THEN << Head(l) >> \o InsertDesc(x, Tail(l))
         ELSE << x >> \o l

RECURSIVE SortedDesc(_)
SortedDesc(l) ==
    IF l = << >> THEN << >>
    ELSE InsertDesc(l[Len(l)], SortedDesc(SubSeq(l, 1, Len(l) - 1)))

\* a slip: the list is trusted to arrive sorted, and its first element is taken
pick_primary_session_unsorted(recent) ==
    IF recent = << >> THEN None ELSE Some(Head(recent))

\* pick_primary_session; None is returned as << >>, a session as << session >>
pick_primary_session(recent) ==
    IF recent = << >> THEN None ELSE Some(Head(SortedDesc(recent)))

parse_status_sample(recent) ==
    LET p == pick_primary_session(recent)
        r == IF p = None THEN NoSession ELSE p[1]
    IN  [session_key |-> r.key, model |-> r.model,
         input_tokens |-> r.inputTokens, output_tokens |-> r.outputTokens,
         total_tokens |-> r.totalTokens,
         remaining_tokens |-> r.remainingTokens,
         context_tokens |-> r.contextTokens, percent_used |-> r.percentUsed]

\* get_openclaw_status_json() or parse_status_sample() raises
StatusRaises(out) == out.kind /= "json"

\* `if s.session_key or s.total_tokens is not None`
Meaningful(x) == TruthyStr(x.session_key) \/ x.total_tokens /= None

\* a slip: the except branch forgets the carried-forward sample
EffectiveStatus_no_carry(out, lg) ==
    IF StatusRaises(out) THEN AbsentStatus ELSE parse_status_sample(out.recent)

\* the value of `s` after the try/except of main
EffectiveStatus(out, lg) ==
    IF StatusRaises(out) THEN lg ELSE parse_status_sample(out.recent)

\* a slip: every successful fetch replaces the carried-forward sample
CarryForward_any_success(out, lg) ==
    IF ~StatusRaises(out) THEN parse_status_sample(out.recent) ELSE lg

\* the value of `last_good_status` after the try/except of main
CarryForward(out, lg) ==
    IF ~StatusRaises(out) /\ Meaningful(parse_status_sample(out.recent))
    THEN parse_status_sample(out.recent)
    ELSE lg

\* a slip: every failed fetch prints the warning
WarnsNow_every_failure(out, at, last) == StatusRaises(out)

\* `if t0 - last_status_err_at > 60` in the except branch
WarnsNow(out, at, last) == StatusRaises(out) /\ TAfter(at, last, 60 * 1000)

-----------------------------------------------------------------------------
(* Process identities: `openclaw gateway status`, `openclaw browser status` *)

\* One run of an identity command: it fails (timeout, non-zero exit, missing
\* binary), or prints text in which PID_RE finds a pid or finds nothing.
PidOut(kind, took, pid) == [kind |-> kind, took |-> took, pid |-> pid]

GatewayOutputs ==
    { PidOut("fail", 30, None), PidOut("text", 30, None), PidOut("text", 30, Some(11)) }

BrowserOutputs ==
    { PidOut("fail", 30, None), PidOut("text", 30, Some(22)) }

\* `int(m.group(1)) if m else None`, None on any exception
get_gateway_pid(out) == IF out.kind = "fail" THEN None ELSE out.pid

get_browser_pid(out) == IF out.kind = "fail" THEN None ELSE out.pid

\* a slip: a failed lookup keeps the identity known before
CachedPid_keeps_known(old, result) == IF result = None THEN old ELSE result

\* `gateway_pid = get_gateway_pid()`: the assignment overwrites the cache
CachedPid(old, result) == result

\* a slip: the identities are looked up on every tick
RefreshDue_every_tick(at, last) == TRUE

\* `if t0 - last_pid_refresh > 30`
RefreshDue(at, last) == TAfter(at, last, 30 * 1000)

-----------------------------------------------------------------------------
(* Per-process network adapter: nettop *)

\* The last {...} line of nettop's output as a JSON object; a missing key is None.
NetJson(bi, rxb, inb, bo, txb, outb) ==
    [bytes_in |-> bi, rx_bytes |-> rxb, in_bytes |-> inb,
     bytes_out |-> bo, tx_bytes |-> txb, out_bytes |-> outb]

NoJson == NetJson(None, None, None, None, None, None)

\* One run of nettop: it fails, prints no {...} line, or prints one.
NettopOut(kind, took, j) == [kind |-> kind, took |-> took, j |-> j]

NettopOutputs ==
    { NettopOut("fail", 20, NoJson),
      NettopOut("lines", 20, NetJson(Some(3), None, None, Some(4), None, None)),
      NettopOut("lines", 20, NetJson(Some(0), None, None, Some(0), None, None)),
      NettopOut("lines", 20, NetJson(None, Some(3), None, None, None, None)) }

\* nettop_bytes_for_pid: None, or << (rx, tx) >>
nettop_bytes_for_pid(out) ==
    IF out.kind /= "lines" THEN None
    ELSE LET rx == OrInt(OrInt(out.j.bytes_in, out.j.rx_bytes), out.j.in_bytes)
             tx == OrInt(OrInt(out.j.bytes_out, out.j.tx_bytes), out.j.out_bytes)
         IN  IF rx = None \/ tx = None THEN None
             ELSE Some(<< rx[1], tx[1] >>)

-----------------------------------------------------------------------------
(* System-wide network adapter: netstat -ib *)

\* One line of the table below the header: interface name and the text of the
\* Ibytes / Obytes columns as int() reads it (None when int() raises).
IfRow(name, ib, ob) == [name |-> name, ibytes |-> ib, obytes |-> ob]

\* /usr/sbin/netstat is tried first, /usr/bin/netstat when it raises; `header`
\* says whether the header line has both an Ibytes and an Obytes column.
NetstatOut(sbin, bin, took, header, rows) ==
    [sbin |-> sbin, bin |-> bin, took |-> took, header |-> header, rows |-> rows]

NetstatOutputs ==
    { NetstatOut("fail", "fail", 20, FALSE, << >>),
      NetstatOut("ok", "ok", 20, TRUE,
                 << IfRow("lo0", Some(100), Some(100)), IfRow("en0", Some(7), Some(8)),
                    IfRow("en1", None, Some(1)) >>),
      NetstatOut("fail", "ok", 20, TRUE, << IfRow("en0", Some(0), Some(0)) >>),
      NetstatOut("ok", "ok", 20, FALSE, << IfRow("en0", Some(7), Some(8)) >>) }

\* name.startswith("en") or name.startswith("bridge"), over the interface
\* names of the model
Physical(name) == name \in {"en0", "en1", "bridge0"}

RECURSIVE SumRows(_)
SumRows(rows) ==
    IF rows = << >> THEN << 0, 0 >>
    ELSE LET r == Head(rows)
             rest == SumRows(Tail(rows))
         IN  IF Physical(r.name) /\ r.ibytes /= None /\ r.obytes /= None
             THEN << rest[1] + r.ibytes[1], rest[2] + r.obytes[1] >>
             ELSE rest

\* netstat_total_bytes: None, or << (rx_total, tx_total) >>
netstat_total_bytes(out) ==
    IF out.sbin = "fail" /\ out.bin = "fail" THEN None
    ELSE LET tot == IF out.header THEN SumRows(out.rows) ELSE << 0, 0 >>
         IN  IF tot[1] = 0 /\ tot[2] = 0 THEN None ELSE Some(tot)

-----------------------------------------------------------------------------
(* Fallback resolution of the network sample, lines 305-326 of main *)

\* `if not pid: continue`
Queried(pid) == TruthyInt(pid)

\* the value of bt for one cached identity (None when it is not queried)
PerPid(pid, out) == IF Queried(pid) THEN nettop_bytes_for_pid(out) ELSE None

\* any_net after the loop over [gateway_pid, browser_pid]
AnyPerPid(gb, bb) == gb /= None \/ bb /= None

\* a slip: netstat is asked as soon as one per-process query fails
NetstatCalled_any_failure(gb, bb) == gb = None \/ bb = None

\* `if not any_net: totals = netstat_total_bytes()`
NetstatCalled(gb, bb) == ~AnyPerPid(gb, bb)

\* a slip: only net_rx is reset to None when nothing succeeded
NetSample_half_absent(gb, bb, totals) ==
    IF gb /= None \/ bb /= None
    THEN << Some((IF gb /= None THEN gb[1][1] ELSE 0) + (IF bb /= None THEN bb[1][1] ELSE 0)),
            Some((IF gb /= None THEN gb[1][2] ELSE 0) + (IF bb /= None THEN bb[1][2] ELSE 0)) >>
    ELSE IF totals /= None
         THEN << Some(totals[1][1]), Some(totals[1][2]) >>
         ELSE << None, Some(0) >>

\* (net_rx, net_tx) as passed to insert_sample, each an Optional[int]
NetSample(gb, bb, totals) ==
    IF AnyPerPid(gb, bb)
    THEN << Some((IF gb /= None THEN gb[1][1] ELSE 0) + (IF bb /= None THEN bb[1][1] ELSE 0)),
            Some((IF gb /= None THEN gb[1][2] ELSE 0) + (IF bb /= None THEN bb[1][2] ELSE 0)) >>
    ELSE IF totals /= None
         THEN << Some(totals[1][1]), Some(totals[1][2]) >>
         ELSE << None, None >>

-----------------------------------------------------------------------------
(* Persistence layer: table samples, keyed by ts_ms *)

Row(t, st, rx, tx) ==
    [ts_ms |-> t, session_key |-> st.session_key, model |-> st.model,
     input_tokens |-> st.input_tokens, output_tokens |-> st.output_tokens,
     total_tokens |-> st.total_tokens, remaining_tokens |-> st.remaining_tokens,
     context_tokens |-> st.context_tokens, percent_used |-> st.percent_used,
     net_rx_bytes |-> rx, net_tx_bytes |-> tx]

\* the eight status columns of a row
StatusOf(r) ==
    [session_key |-> r.session_key, model |-> r.model,
     input_tokens |-> r.input_tokens, output_tokens |-> r.output_tokens,
     total_tokens |-> r.total_tokens, remaining_tokens |-> r.remaining_tokens,
     context_tokens |-> r.context_tokens, percent_used |-> r.percent_used]

\* schema.sql: the column a uniqueness constraint of table samples covers
UniqueKey(r) == r.ts_ms

\* Connection.execute raises when a parameter cannot be bound
InsertRaises(st, rx, tx) ==
    \/ ~Bindable(st.session_key) \/ ~Bindable(st.model)
    \/ ~Bindable(st.input_tokens) \/ ~Bindable(st.output_tokens)
    \/ ~Bindable(st.total_tokens) \/ ~Bindable(st.remaining_tokens)
    \/ ~Bindable(st.context_tokens) \/ ~Bindable(st.percent_used)
    \/ ~Bindable(rx) \/ ~Bindable(tx)

\* a slip: plain INSERT into a table without the unique key
insert_sample_no_replace(rows, t, st, rx, tx) == rows \cup { Row(t, st, rx, tx) }

\* INSERT OR REPLACE: rows that conflict with the new row on a unique key are
\* deleted, then the new row is inserted.
insert_sample(rows, t, st, rx, tx) ==
    LET new == Row(t, st, rx, tx)
    IN  { r \in rows : UniqueKey(r) /= UniqueKey(new) } \cup { new }

\* a slip: keep_days is subtracted as milliseconds
Cutoff_days_as_ms(now, kd) == TAdd(now, 0 - kd)

\* cutoff = now_ms() - keep_days * 86400 * 1000
Cutoff(now, kd) == TSubDays(now, kd)

\* a slip: DELETE ... WHERE ts_ms <= cutoff
prune_old_inclusive(rows, now, kd) ==
    { r \in rows : TLess(Cutoff(now, kd), r.ts_ms) }

\* DELETE FROM samples WHERE ts_ms < cutoff
prune_old(rows, now, kd) == { r \in rows : ~TLess(r.ts_ms, Cutoff(now, kd)) }

\* a slip: the connection runs in autocommit mode
DurableAfterInsert_autocommit(durable, seen_by_conn) == seen_by_conn

\* What is durable after each statement of the tick.  sqlite3 opens a
\* transaction implicitly before INSERT / DELETE (the connection is opened with
\* the default isolation level), so only conn.commit() changes the durable rows.
DurableAfterInsert(durable, seen_by_conn) == durable

DurableAfterPrune(durable, seen_by_conn) == durable

DurableAfterCommit(durable, seen_by_conn) == seen_by_conn

-----------------------------------------------------------------------------
(* The end of the process, lines 338-342 *)

\* The signals the collector is stopped with: SIGINT (Ctrl-C, kill -INT) and
\* SIGTERM (kill, launchctl stop / unload, system shutdown).
Signals == { "SIGINT", "SIGTERM" }

\* How a signal ends the process.  Python turns SIGINT into KeyboardInterrupt,
\* a BaseException that no `except Exception` of the program catches.  The
\* program installs no handler for SIGTERM: the signal's default action kills
\* the process.
EndedBy(sig) == IF sig = "SIGINT" THEN "KeyboardInterrupt" ELSE sig

\* a slip: the handler of line 341 also catches Exception
ExitStatus_catch_all(how) ==
    CASE how = "KeyboardInterrupt" -> 0
      [] how = "exception" -> 0
      [] how = "SIGTERM" -> 128 + 15
      [] OTHER -> 128 + 9

\* The exit status of the process: 0 from `raise SystemExit(0)` of line 342,
\* 1 when an exception other than KeyboardInterrupt leaves line 340, and
\* 128 + n, as a shell reports it, when signal n kills the process.
ExitStatus(how) ==
    CASE how = "KeyboardInterrupt" -> 0
      [] how = "exception" -> 1
      [] how = "SIGTERM" -> 128 + 15
      [] OTHER -> 128 + 9

-----------------------------------------------------------------------------
(* Initial state: main up to the first `while True` *)

\* The instant the process starts at.
StartTime == Time(200, 0)

\* `last_pid_refresh = 0.0`, `last_status_err_at = 0.0`: the Unix epoch
Epoch == Time(0, 0)

\* --keep-days as given on the command line (default 90)
KeepDaysArgs == { 90 }

\* --interval in milliseconds (default 1.0 s)
IntervalMs == 1000

\* Rows an earlier run of the collector left in the database file: one is
\* 91 days old when this run starts, one becomes 90 days old 500 ms into
\* the run, one is a day old.
OldRows ==
    { Row(Time(109, 0), AbsentStatus, None, None),
      Row(Time(110, 500), AbsentStatus, Some(7), Some(8)),
      Row(Time(199, 0), AbsentStatus, None, None) }

NoLive == [raised |-> FALSE, sample |-> AbsentStatus]

NoNet == [g |-> None, b |-> None, gb |-> None, bb |-> None,
          called |-> FALSE, totals |-> None]

NoHalt == [at |-> "", why |-> "", ts_ms |-> Epoch, exit |-> 0]

NoRefresh == [made |-> FALSE, g |-> PidOut("skip", 0, None), b |-> PidOut("skip", 0, None)]

NoOp == [name |-> "", arg |-> Epoch, row |-> Row(Epoch, AbsentStatus, None, None),
         prev |-> { }, n |-> 0]

InitLoopState ==
    /\ ticks = 0
    /\ t0 = Epoch
    /\ ts = Epoch
    /\ gateway_pid = None
    /\ browser_pid = None
    /\ last_pid_refresh = Epoch
    /\ last_status_err_at = Epoch
    /\ last_good_status = AbsentStatus
    /\ s = AbsentStatus
    /\ net_rx = None
    /\ net_tx = None
    /\ calls = << >>
    /\ live = NoLive
    /\ seen = None
    /\ nres = NoNet
    /\ warned = { }
    /\ halt = NoHalt
    /\ op = NoOp
    /\ refreshed = NoRefresh
    /\ done = << >>

Init ==
    /\ pc = "start"
    /\ clock = StartTime
    /\ keep_days \in KeepDaysArgs
    /\ store = OldRows
    /\ txn = OldRows
    /\ InitLoopState

-----------------------------------------------------------------------------
(* Ghost readings of the adapters' raw answers, used to state the properties *)

\* a sample that carries a signal: a session identifier or a total
HasSignal(x) == x.session_key /= None \/ x.total_tokens /= None

\* first value that is present among three keys
FirstPresent(a, b, c) == IF a /= None THEN a ELSE IF b /= None THEN b ELSE c

\* What one run of nettop reported: None when it failed or a counter is
\* missing, else << (rx, tx) >>, zero counters included.
Reported(out) ==
    IF out.kind /= "lines" THEN None
    ELSE LET rx == FirstPresent(out.j.bytes_in, out.j.rx_bytes, out.j.in_bytes)
             tx == FirstPresent(out.j.bytes_out, out.j.tx_bytes, out.j.out_bytes)
         IN  IF rx = None \/ tx = None THEN None ELSE Some(<< rx[1], tx[1] >>)

-----------------------------------------------------------------------------
(* One tick of main's loop, statement by statement.  The sets GO, BO, SO, NTO *)
(* and NSO are what the gateway-identity, browser-identity, status, nettop    *)
(* and netstat commands may answer.                                           *)

\* lines 279-287: read the clock, refresh the cached identities when stale
TickStart(GO, BO) ==
    /\ pc = "start"
    /\ ticks < MaxTicks
    /\ ticks' = ticks + 1
    /\ t0' = clock
    /\ ts' = now_ms
    /\ IF RefreshDue(clock, last_pid_refresh)
       THEN \E g \in GO, b \in BO :
               /\ gateway_pid' = CachedPid(gateway_pid, get_gateway_pid(g))
               /\ browser_pid' = CachedPid(browser_pid, get_browser_pid(b))
               /\ last_pid_refresh' = clock
               /\ clock' = TAdd(clock, g.took + b.took)
               /\ calls' = << "get_gateway_pid", "get_browser_pid" >>
               /\ refreshed' = [made |-> TRUE, g |-> g, b |-> b]
       ELSE /\ UNCHANGED << gateway_pid, browser_pid, last_pid_refresh, clock >>
            /\ calls' = << >>
            /\ refreshed' = NoRefresh
    /\ live' = NoLive
    /\ nres' = NoNet
    /\ pc' = "status"
    /\ UNCHANGED << keep_days, last_status_err_at, last_good_status, s, net_rx,
                    net_tx, txn, store, seen, warned, halt, op, done >>

\* lines 289-303: live status, or the carried-forward sample when it raises
ResolveStatus(SO) ==
    /\ pc = "status"
    /\ \E out \in SO :
          /\ s' = EffectiveStatus(out, last_good_status)
          /\ last_good_status' = CarryForward(out, last_good_status)
          /\ IF WarnsNow(out, t0, last_status_err_at)
             THEN /\ last_status_err_at' = t0
                  /\ warned' = warned \cup { t0 }
             ELSE UNCHANGED << last_status_err_at, warned >>
          /\ clock' = TAdd(clock, out.took)
          /\ live' = [raised |-> StatusRaises(out),
                      sample |-> IF StatusRaises(out) THEN AbsentStatus
                                 ELSE parse_status_sample(out.recent)]
          /\ seen' = IF ~StatusRaises(out) /\ HasSignal(parse_status_sample(out.recent))
                     THEN Some(parse_status_sample(out.recent))
                     ELSE seen
    /\ calls' = Append(calls, "status")
    /\ refreshed' = NoRefresh
    /\ pc' = "net"
    /\ UNCHANGED << keep_days, ticks, t0, ts, gateway_pid, browser_pid,
                    last_pid_refresh, net_rx, net_tx, txn, store, nres, halt, op,
                    done >>

NettopSkipped == NettopOut("skip", 0, NoJson)

NetstatSkipped == NetstatOut("skip", "skip", 0, FALSE, << >>)

\* lines 305-326: per-process counters, system-wide totals as fallback
ResolveNetwork(NTO, NSO) ==
    /\ pc = "net"
    /\ \E g \in IF Queried(gateway_pid) THEN NTO ELSE { NettopSkipped },
          b \in IF Queried(browser_pid) THEN NTO ELSE { NettopSkipped } :
          LET gb == PerPid(gateway_pid, g)
              bb == PerPid(browser_pid, b)
          IN  \E n \in IF NetstatCalled(gb, bb) THEN NSO ELSE { NetstatSkipped } :
                 LET totals == IF NetstatCalled(gb, bb) THEN netstat_total_bytes(n) ELSE None
                     ns == NetSample(gb, bb, totals)
                 IN  /\ net_rx' = ns[1]
                     /\ net_tx' = ns[2]
                     /\ clock' = TAdd(clock, g.took + b.took + n.took)
                     /\ calls' = calls
                                  \o (IF Queried(gateway_pid) THEN << "nettop:gateway" >> ELSE << >>)
                                  \o (IF Queried(browser_pid) THEN << "nettop:browser" >> ELSE << >>)
                                  \o (IF NetstatCalled(gb, bb) THEN << "netstat" >> ELSE << >>)
                     /\ nres' = [g |-> Reported(g), b |-> Reported(b), gb |-> gb, bb |-> bb,
                                 called |-> NetstatCalled(gb, bb), totals |-> totals]
    /\ pc' = "insert"
    /\ UNCHANGED << keep_days, ticks, t0, ts, gateway_pid, browser_pid,
                    last_pid_refresh, last_status_err_at, last_good_status, s,
                    txn, store, live, seen, warned, halt, op, refreshed, done >>

\* line 328: insert_sample(conn, ts, s, net_rx, net_tx); an exception of
\* Connection.execute leaves main, and the process ends with a traceback
Insert ==
    /\ pc = "insert"
    /\ IF InsertRaises(s, net_rx, net_tx)
       THEN /\ pc' = "raised"
            /\ halt' = [at |-> "insert", why |-> "source_output", ts_ms |-> ts,
                        exit |-> ExitStatus("exception")]
            /\ txn' = store
            /\ UNCHANGED store
       ELSE /\ pc' = "prune"
            /\ txn' = insert_sample(txn, ts, s, net_rx, net_tx)
            /\ store' = DurableAfterInsert(store, txn')
            /\ UNCHANGED halt
    /\ UNCHANGED << clock, keep_days, ticks, t0, ts, gateway_pid, browser_pid,
                    last_pid_refresh, last_status_err_at, last_good_status, s,
                    net_rx, net_tx, calls, live, seen, nres, warned, op,
                    refreshed, done >>

\* line 329: prune_old(conn, keep_days=args.keep_days)
Prune ==
    /\ pc = "prune"
    /\ pc' = "commit"
    /\ txn' = prune_old(txn, now_ms, keep_days)
    /\ store' = DurableAfterPrune(store, txn')
    /\ UNCHANGED << clock, keep_days, ticks, t0, ts, gateway_pid, browser_pid,
                    last_pid_refresh, last_status_err_at, last_good_status, s,
                    net_rx, net_tx, calls, live, seen, nres, warned, halt, op,
                    refreshed, done >>

\* line 330: conn.commit()
Commit ==
    /\ pc = "commit"
    /\ pc' = "sleep"
    /\ store' = DurableAfterCommit(store, txn)
    /\ done' = Append(done, ts)
    /\ UNCHANGED << clock, keep_days, ticks, t0, ts, gateway_pid, browser_pid,
                    last_pid_refresh, last_status_err_at, last_good_status, s,
                    net_rx, net_tx, txn, calls, live, seen, nres, warned, halt, op,
                    refreshed >>

\* a slip: the sleep is not clamped at zero
SleepMs_no_clamp(interval, dt) == interval - dt

\* `sleep_s = max(0.0, args.interval - dt)`
SleepMs(interval, dt) == IF interval - dt > 0 THEN interval - dt ELSE 0

\* lines 332-335: sleep to the interval
Sleep ==
    /\ pc = "sleep"
    /\ pc' = "start"
    /\ clock' = TAdd(clock, SleepMs(IntervalMs, TDiff(clock, t0)))
    /\ UNCHANGED << keep_days, ticks, t0, ts, gateway_pid, browser_pid,
                    last_pid_refresh, last_status_err_at, last_good_status, s,
                    net_rx, net_tx, txn, store, calls, live, seen, nres, warned,
                    halt, op, refreshed, done >>

\* The process is killed or the host loses power at any point of the loop:
\* its memory is gone, and so is what the connection had not committed.
Crash ==
    /\ pc \in { "start", "status", "net", "insert", "prune", "commit", "sleep" }
    /\ ticks > 0
    /\ pc' = "crashed"
    /\ halt' = [at |-> pc, why |-> "crash", ts_ms |-> ts,
                exit |-> ExitStatus("SIGKILL")]
    /\ txn' = store
    /\ t0' = Epoch
    /\ ts' = Epoch
    /\ gateway_pid' = None
    /\ browser_pid' = None
    /\ last_pid_refresh' = Epoch
    /\ last_status_err_at' = Epoch
    /\ last_good_status' = AbsentStatus
    /\ s' = AbsentStatus
    /\ net_rx' = None
    /\ net_tx' = None
    /\ calls' = << >>
    /\ live' = NoLive
    /\ seen' = None
    /\ nres' = NoNet
    /\ warned' = { }
    /\ refreshed' = NoRefresh
    /\ done' = << >>
    /\ UNCHANGED << clock, keep_days, ticks, store, op >>

\* the positions of main's loop
LoopPcs == { "start", "status", "net", "insert", "prune", "commit", "sleep" }

\* the process is gone, and its memory with it
MemoryGone ==
    /\ t0' = Epoch
    /\ ts' = Epoch
    /\ gateway_pid' = None
    /\ browser_pid' = None
    /\ last_pid_refresh' = Epoch
    /\ last_status_err_at' = Epoch
    /\ last_good_status' = AbsentStatus
    /\ s' = AbsentStatus
    /\ net_rx' = None
    /\ net_tx' = None
    /\ calls' = << >>
    /\ live' = NoLive
    /\ seen' = None
    /\ nres' = NoNet
    /\ warned' = { }
    /\ refreshed' = NoRefresh
    /\ done' = << >>

\* lines 328-330 when the database fails (disk full, file locked by another
\* process, I/O error): the statement raises sqlite3.Error, which nothing in
\* main catches; the exception leaves line 340 and the process ends.  The
\* connection is closed without a commit, so the open transaction is rolled
\* back (a commit that fails commits nothing).
PersistenceFails ==
    /\ pc \in { "insert", "prune", "commit" }
    /\ pc' = "raised"
    /\ halt' = [at |-> pc, why |-> "persistence", ts_ms |-> ts,
                exit |-> ExitStatus("exception")]
    /\ txn' = store
    /\ MemoryGone
    /\ UNCHANGED << clock, keep_days, ticks, store, op >>

\* A signal of SS arrives at any point of the loop.  KeyboardInterrupt goes up
\* to line 341 and the process exits through SystemExit(0); SIGTERM kills the
\* process where it is.  Either way the connection never commits what the
\* tick had written.
Signal(SS) ==
    /\ pc \in LoopPcs
    /\ ticks > 0
    /\ \E sig \in SS :
          /\ pc' = IF EndedBy(sig) = "KeyboardInterrupt" THEN "exited" ELSE "killed"
          /\ halt' = [at |-> pc, why |-> sig, ts_ms |-> ts,
                      exit |-> ExitStatus(EndedBy(sig))]
    /\ txn' = store
    /\ MemoryGone
    /\ UNCHANGED << clock, keep_days, ticks, store, op >>

Next ==
    \/ TickStart(GatewayOutputs, BrowserOutputs)
    \/ ResolveStatus(StatusOutputs)
    \/ ResolveNetwork(NettopOutputs, NetstatOutputs)
    \/ Insert
    \/ Prune
    \/ Commit
    \/ Sleep
    \/ Crash
    \/ PersistenceFails
    \/ Signal(Signals)

\* The collector with every source answering in every way of the model.
Spec == Init /\ [][Next]_vars

-----------------------------------------------------------------------------
(* The collector while the identity sources are down, so that no process is  *)
(* ever queried: the status source and netstat answer in every way of the    *)
(* model.                                                                    *)

IdentityDown == { PidOut("fail", 30, None) }

NextStatus ==
    \/ TickStart(IdentityDown, IdentityDown)
    \/ ResolveStatus(StatusOutputs)
    \/ ResolveNetwork(NettopOutputs, NetstatOutputs)
    \/ Insert
    \/ Prune
    \/ Commit
    \/ Sleep
    \/ Crash

SpecStatus == Init /\ [][NextStatus]_vars

-----------------------------------------------------------------------------
(* The collector while the status source either times out or reports one     *)
(* steady session: the identity and network sources answer in every way of   *)
(* the model.                                                                *)

StatusSteady ==
    { StatusOut("timeout", 25000, << >>), StatusOut("json", 40, << SessA >>) }

NextNet ==
    \/ TickStart(GatewayOutputs, BrowserOutputs)
    \/ ResolveStatus(StatusSteady)
    \/ ResolveNetwork(NettopOutputs, NetstatOutputs)
    \/ Insert
    \/ Prune
    \/ Commit
    \/ Sleep
    \/ Crash

SpecNet == Init /\ [][NextNet]_vars

-----------------------------------------------------------------------------
(* The collector with the identity sources down and a steady status source,  *)
(* while the database may fail and signals may arrive at any point.          *)

NextStop ==
    \/ TickStart(IdentityDown, IdentityDown)
    \/ ResolveStatus(StatusSteady)
    \/ ResolveNetwork(NettopOutputs, NetstatOutputs)
    \/ Insert
    \/ Prune
    \/ Commit
    \/ Sleep
    \/ Crash
    \/ PersistenceFails
    \/ Signal(Signals)

SpecStop == Init /\ [][NextStop]_vars

-----------------------------------------------------------------------------
(* The collector of SpecStatus started with each of several retention        *)
(* windows, a window of zero days included.                                  *)

RetentionArgs == { 0, 1, 90 }

InitRows ==
    /\ pc = "start"
    /\ clock = StartTime
    /\ keep_days \in RetentionArgs
    /\ store = OldRows
    /\ txn = OldRows
    /\ InitLoopState

SpecRows == InitRows /\ [][NextStatus]_vars

-----------------------------------------------------------------------------
(* The collector while the identity commands may hang until their timeout    *)
(* (10 s each) and the status source times out or reports one steady         *)
(* session: a tick can then take more than 30 s, and two ticks more than     *)
(* 60 s.                                                                     *)

GatewayTimed == { PidOut("fail", 10000, None), PidOut("text", 30, Some(11)) }

BrowserTimed == { PidOut("fail", 10000, None), PidOut("text", 30, Some(22)) }

NextTiming ==
    \/ TickStart(GatewayTimed, BrowserTimed)
    \/ ResolveStatus(StatusSteady)
    \/ ResolveNetwork(NettopOutputs, NetstatOutputs)
    \/ Insert
    \/ Prune
    \/ Commit
    \/ Sleep
    \/ Crash

SpecTiming == Init /\ [][NextTiming]_vars

-----------------------------------------------------------------------------
(* The persistence layer called directly, as a unit test of insert_sample    *)
(* and prune_old does: any sequence of calls, with the clock moving between  *)
(* them, on a database that holds rows of known age.                         *)

MaxCalls == 3

\* a row that is `days` days and `ms` milliseconds old at StartTime
Aged(days, ms) ==
    Row(TSubDays(IF ms > 0 THEN Time(StartTime.d - 1, StartTime.ms + DayMs - ms)
                 ELSE StartTime, days),
        AbsentStatus, Some(days), Some(ms))

AgedRows ==
    { Aged(0, 0), Aged(89, 0), Aged(90, 0), Aged(91, 0), Aged(200, 0),
      Aged(89, DayMs - 1), Aged(90, 1) }

\* a timestamp no aged row has
FreshTs == TAdd(StartTime, 7)

UnitTimes == { FreshTs, Aged(0, 0).ts_ms, Aged(90, 0).ts_ms }

UnitSamples == { AbsentStatus, parse_status_sample(<< SessA >>) }

UnitNets == { << None, None >>, << Some(3), Some(4) >> }

UnitKeepDays == { 0, 1, 90 }

InitDb ==
    /\ pc = "unit"
    /\ clock = StartTime
    /\ keep_days \in UnitKeepDays
    /\ store = AgedRows
    /\ txn = AgedRows
    /\ InitLoopState

UnitInsert ==
    /\ pc = "unit"
    /\ op.n < MaxCalls
    /\ \E t \in UnitTimes, st \in UnitSamples, n \in UnitNets :
          /\ ~InsertRaises(st, n[1], n[2])
          /\ txn' = insert_sample(txn, t, st, n[1], n[2])
          /\ op' = [name |-> "insert", arg |-> t, row |-> Row(t, st, n[1], n[2]),
                    prev |-> { r \in txn : r.ts_ms = t }, n |-> op.n + 1]
    /\ UNCHANGED << pc, clock, keep_days, ticks, t0, ts, gateway_pid, browser_pid,
                    last_pid_refresh, last_status_err_at, last_good_status, s,
                    net_rx, net_tx, store, calls, live, seen, nres, warned, halt,
                    refreshed, done >>

UnitPrune ==
    /\ pc = "unit"
    /\ op.n < MaxCalls
    /\ txn' = prune_old(txn, now_ms, keep_days)
    /\ op' = [name |-> "prune", arg |-> now_ms, row |-> NoOp.row,
              prev |-> txn \ txn', n |-> op.n + 1]
    /\ UNCHANGED << pc, clock, keep_days, ticks, t0, ts, gateway_pid, browser_pid,
                    last_pid_refresh, last_status_err_at, last_good_status, s,
                    net_rx, net_tx, store, calls, live, seen, nres, warned, halt,
                    refreshed, done >>

\* time passes between two calls: a millisecond, or a day
UnitWait ==
    /\ pc = "unit"
    /\ op.n < MaxCalls
    /\ op.name /= "wait"
    /\ \E d \in { 1, DayMs } : clock' = TAdd(clock, d)
    /\ op' = [name |-> "wait", arg |-> clock, row |-> NoOp.row, prev |-> { },
              n |-> op.n]
    /\ UNCHANGED << pc, keep_days, ticks, t0, ts, gateway_pid, browser_pid,
                    last_pid_refresh, last_status_err_at, last_good_status, s,
                    net_rx, net_tx, txn, store, calls, live, seen, nres, warned, halt,
                    refreshed, done >>

NextDb == UnitInsert \/ UnitPrune \/ UnitWait

SpecDb == InitDb /\ [][NextDb]_vars

-----------------------------------------------------------------------------
(* pick_primary_session called directly on every list of at most MaxRecent   *)
(* sessions drawn from PickSessions.                                         *)

MaxRecent == 3

\* a session that reports no updatedAt
SessE == Session(Some("e"), Some("m1"), None, None, Some(9), None,
                 None, None, None)

\* updatedAt 100, 200, 150, 150 and none
PickSessions == { SessA, SessB, SessC, SessD, SessE }

RECURSIVE ListsUpTo(_, _)
ListsUpTo(S, n) ==
    IF n = 0 THEN { << >> }
    ELSE LET shorter == ListsUpTo(S, n - 1)
         IN  shorter \cup { Append(l, x) : l \in shorter, x \in S }

InitPick ==
    /\ pc = "pick"
    /\ clock = StartTime
    /\ keep_days \in KeepDaysArgs
    /\ store = { }
    /\ txn = { }
    /\ InitLoopState

UnitPick ==
    /\ pc = "pick"
    /\ op.name = ""
    /\ \E recent \in ListsUpTo(PickSessions, MaxRecent) :
          op' = [name |-> "pick", recent |-> recent,
                 picked |-> pick_primary_session(recent)]
    /\ UNCHANGED << pc, clock, keep_days, ticks, t0, ts, gateway_pid, browser_pid,
                    last_pid_refresh, last_status_err_at, last_good_status, s,
                    net_rx, net_tx, txn, store, calls, live, seen, nres, warned,
                    halt, refreshed, done >>

NextPick == UnitPick

SpecPick == InitPick /\ [][NextPick]_vars

-----------------------------------------------------------------------------
(* Properties *)

\* the tick in progress has executed insert_sample
RowWritten == pc \in { "prune", "commit", "sleep" }

\* the rows keyed by this tick's ts_ms: as the connection sees them, and after
\* the commit as they are stored
RowsOfTick ==
    { r \in (IF pc = "sleep" THEN store \cup txn ELSE txn) : r.ts_ms = ts }

\* C1: on a tick whose live status fetch fails, if an earlier tick produced a
\* meaningful live sample, the row written for the tick carries the eight
\* status fields of the latest such sample.
C1_CarryForwardOnOutage ==
    (RowWritten /\ live.raised /\ seen /= None)
        => \A r \in RowsOfTick : StatusOf(r) = seen[1]

\* C1 witness: the third tick failed after a meaningful sample was seen, and
\* its committed row carries that sample.
C1_Witness ==
    /\ pc = "sleep"
    /\ ticks = 3
    /\ live.raised
    /\ seen /= None
    /\ \E r \in store : r.ts_ms = ts /\ StatusOf(r) = seen[1]

\* C2: when the live fetch succeeds with a sample that has neither signal,
\* the row written for the tick carries the carry-forward state, not the
\* live sample.
C2_NoSignalUsesCarryForward ==
    (RowWritten /\ ~live.raised /\ ~HasSignal(live.sample))
        => \A r \in RowsOfTick : StatusOf(r) = last_good_status

\* C3: as long as the live source has produced no meaningful sample, the eight
\* status fields of every row are absent, also on ticks whose live sample has
\* other fields but neither signal.
C3_NeverMeaningfulAllAbsent ==
    (RowWritten /\ seen = None)
        => \A r \in store \cup txn : StatusOf(r) = AbsentStatus

\* a per-process answer that reports zero received or zero transmitted bytes
ZeroReport(x) == x /= None /\ (x[1][1] = 0 \/ x[1][2] = 0)

\* the sum of the per-process answers, an absent answer counting for nothing
SumPairs(x, y) ==
    << (IF x /= None THEN x[1][1] ELSE 0) + (IF y /= None THEN y[1][1] ELSE 0),
       (IF x /= None THEN x[1][2] ELSE 0) + (IF y /= None THEN y[1][2] ELSE 0) >>

\* C4: a per-process query that succeeds and reports zero traffic counts as a
\* success: the system-wide adapter is not invoked and the row carries the
\* per-process sum, zeros included.
C4_ZeroTrafficIsSuccess ==
    (RowWritten /\ (ZeroReport(nres.g) \/ ZeroReport(nres.b)))
        => /\ ~nres.called
           /\ \A r \in RowsOfTick :
                 /\ r.net_rx_bytes = Some(SumPairs(nres.g, nres.b)[1])
                 /\ r.net_tx_bytes = Some(SumPairs(nres.g, nres.b)[2])

\* the network adapters invoked in this tick, in order
NetCalls ==
    SelectSeq(calls, LAMBDA c : c \in { "nettop:gateway", "nettop:browser", "netstat" })

\* C5: nettop is queried for each cached identity that is present, gateway
\* first; netstat is invoked exactly when no such query returned a pair; the
\* row carries the sum of the returned pairs when there is one, else netstat's
\* totals unchanged.
C5_NetworkPrecedence ==
    RowWritten =>
        /\ NetCalls =
              (IF gateway_pid /= None THEN << "nettop:gateway" >> ELSE << >>)
              \o (IF browser_pid /= None THEN << "nettop:browser" >> ELSE << >>)
              \o (IF nres.gb = None /\ nres.bb = None THEN << "netstat" >> ELSE << >>)
        /\ \A r \in RowsOfTick :
              /\ (nres.gb /= None \/ nres.bb /= None)
                    => /\ r.net_rx_bytes = Some(SumPairs(nres.gb, nres.bb)[1])
                       /\ r.net_tx_bytes = Some(SumPairs(nres.gb, nres.bb)[2])
              /\ (nres.gb = None /\ nres.bb = None /\ nres.totals /= None)
                    => /\ r.net_rx_bytes = Some(nres.totals[1][1])
                       /\ r.net_tx_bytes = Some(nres.totals[1][2])

\* C5 witness: both identities are cached, the gateway's query returned a
\* pair and the browser's failed; netstat was not invoked and the row carries
\* the gateway's pair.
C5_Witness ==
    /\ pc = "sleep"
    /\ gateway_pid /= None /\ browser_pid /= None
    /\ nres.gb /= None /\ nres.bb = None
    /\ NetCalls = << "nettop:gateway", "nettop:browser" >>
    /\ \E r \in store : /\ r.ts_ms = ts
                        /\ r.net_rx_bytes = Some(nres.gb[1][1])
                        /\ r.net_tx_bytes = Some(nres.gb[1][2])

\* C6: in every row the two network fields are both present or both absent,
\* and the row of a tick has them absent exactly when no per-process query
\* returned a pair and netstat returned none either.
C6_NetworkPairWhole ==
    /\ \A r \in store \cup txn : (r.net_rx_bytes = None) <=> (r.net_tx_bytes = None)
    /\ RowWritten =>
          \A r \in RowsOfTick :
              (r.net_rx_bytes = None)
                  <=> (nres.gb = None /\ nres.bb = None /\ nres.called /\ nres.totals = None)

\* C6 witness: an identity was queried and failed, netstat failed too, and the
\* committed row has both network fields absent.
C6_Witness ==
    /\ pc = "sleep"
    /\ gateway_pid /= None
    /\ nres.gb = None /\ nres.bb = None /\ nres.called /\ nres.totals = None
    /\ \E r \in store : r.ts_ms = ts /\ r.net_rx_bytes = None /\ r.net_tx_bytes = None

\* the step is a call of insert_sample made by the unit harness
IsInsertCall == op'.name = "insert" /\ op'.n = op.n + 1

\* the step is a call of prune_old made by the unit harness
IsPruneCall == op'.name = "prune" /\ op'.n = op.n + 1

\* C7: after any sequence of insert_sample calls there is at most one row per
\* ts_ms; a call leaves exactly its own row under its ts_ms and every row of
\* another ts_ms as it was.
C7_IdempotentUpsert ==
    /\ [](\A r1, r2 \in txn : r1.ts_ms = r2.ts_ms => r1 = r2)
    /\ [][IsInsertCall =>
             /\ { r \in txn' : r.ts_ms = op'.arg } = { op'.row }
             /\ { r \in txn' : r.ts_ms /= op'.arg } = { r \in txn : r.ts_ms /= op'.arg }]_vars

\* C7 witness: a ts_ms no stored row had was written twice with different
\* values; other rows are still there.
C7_Witness ==
    /\ op.name = "insert"
    /\ op.arg = FreshTs
    /\ op.prev /= { }
    /\ op.prev /= { op.row }
    /\ op.row \in txn
    /\ Cardinality(txn) > 1

\* the ages in days of the rows of the retention example
ExampleAges == { 0, 89, 90, 91, 200 }

\* C8: prune_old run at time now deletes exactly the rows whose ts_ms is less
\* than now minus keep_days days and changes no other row; with keep_days = 90,
\* of rows aged 0, 89, 90, 91 and 200 days it removes those aged 91 and 200.
C8_RetentionBoundary ==
    [][IsPruneCall =>
          /\ txn' \subseteq txn
          /\ \A r \in txn :
                (r \notin txn') <=>
                    \/ r.ts_ms.d < clock.d - keep_days
                    \/ (r.ts_ms.d = clock.d - keep_days /\ r.ts_ms.ms < clock.ms)
          /\ (keep_days = 90 /\ clock = StartTime) =>
                \A a \in ExampleAges :
                    (Aged(a, 0) \in txn) =>
                        ((Aged(a, 0) \in txn') <=> (a \notin { 91, 200 }))]_vars

\* C8 witness: prune_old(90) ran on the rows of the example: the rows aged 91
\* and 200 days and the one a millisecond past 90 days were removed, the row
\* aged exactly 90 days and the younger ones are still there.
C8_Witness ==
    /\ op.name = "prune"
    /\ keep_days = 90
    /\ op.arg = StartTime
    /\ op.prev = { Aged(91, 0), Aged(200, 0), Aged(90, 1) }
    /\ { Aged(0, 0), Aged(89, 0), Aged(90, 0), Aged(89, DayMs - 1) } \subseteq txn

\* C9: the durable rows change only at the commit, which makes the tick's
\* insert and prune durable together; a crash at any point of the tick leaves
\* the durable rows as the last commit left them.
C9_TickAtomic ==
    /\ [](pc \in { "status", "net", "insert" } => txn = store)
    /\ [](pc = "commit" =>
             txn = prune_old(insert_sample(store, ts, s, net_rx, net_tx), clock, keep_days))
    /\ [][/\ (store' /= store) => (pc = "commit" /\ pc' = "sleep" /\ store' = txn)
          /\ (pc' = "crashed") => (store' = store /\ txn' = store)]_vars

\* C9 witness: the process crashed after the insert and the prune, before the
\* commit: the durable rows hold no row of the tick and still hold a row the
\* prune had deleted.
C9_Witness ==
    /\ pc = "crashed"
    /\ halt.at = "commit"
    /\ ~ \E r \in store : r.ts_ms = halt.ts_ms
    /\ \E r \in store : TLess(r.ts_ms, Cutoff(clock, keep_days))

\* C10: whatever the sources answer in a tick, the tick inserts and commits
\* its row and the loop goes on: no answer of a source ends the loop.
C10_SourcesNeverStopLoop == ~(pc = "raised" /\ halt.why = "source_output")

\* C11: when the insert, the prune or the commit of a tick raises, the
\* process ends there with a non-zero exit status and takes no further step;
\* the durable rows are those of the last successful commit and hold no row of
\* the failed tick.
C11_PersistenceFailureIsFatal ==
    /\ []((pc = "raised" /\ halt.why = "persistence") =>
             /\ halt.exit /= 0
             /\ txn = store
             /\ ~ \E r \in store : r.ts_ms = halt.ts_ms)
    /\ [][/\ pc /= "raised"
          /\ (pc' = "raised" /\ halt'.why = "persistence") => store' = store]_vars

\* C11 witness: the commit of a tick raised after its insert and its prune:
\* the process ended with status 1, the durable rows hold no row of the tick
\* and still hold a row its prune had deleted.
C11_Witness ==
    /\ pc = "raised"
    /\ halt.why = "persistence"
    /\ halt.at = "commit"
    /\ halt.exit = 1
    /\ ~ \E r \in store : r.ts_ms = halt.ts_ms
    /\ \E r \in store : TLess(r.ts_ms, Cutoff(clock, keep_days))

\* C12: a shutdown signal, SIGINT or SIGTERM, that arrives at any point of
\* the loop ends the process with exit status 0 and with nothing of the tick
\* in progress committed.
C12_SignalExitsZero ==
    (pc \in { "exited", "killed" }) => (halt.exit = 0 /\ txn = store)

\* C13: the sleep that ends a tick lasts max(0, interval - elapsed), elapsed
\* being the time from the tick's start to its commit; it is never negative;
\* the next tick starts when the sleep ends, an interval after this tick's
\* start when processing took at most the interval, and right after the
\* processing when it took longer.
C13_SleepToInterval ==
    [][/\ (pc = "sleep" /\ pc' = "start") =>
             LET elapsed == TDiff(clock, t0)
                 slept == TDiff(clock', clock)
             IN  /\ slept >= 0
                 /\ slept = (IF IntervalMs - elapsed > 0 THEN IntervalMs - elapsed ELSE 0)
                 /\ (elapsed <= IntervalMs) => TDiff(clock', t0) = IntervalMs
                 /\ (elapsed > IntervalMs) => TDiff(clock', t0) = elapsed
       /\ (pc = "start" /\ pc' = "status") => t0' = clock]_vars

\* C13 witness: the first tick took longer than the interval and the second
\* started right after it; the second took less and the third started exactly
\* one interval after the second.
C13_Witness ==
    /\ pc = "status"
    /\ Len(done) = 2
    /\ TDiff(done[2], done[1]) > IntervalMs
    /\ TDiff(t0, done[2]) = IntervalMs

\* how far the start `at` of tick number k (from 0) is behind the grid
\* start_0 + k * interval
Lag(at, k) == TDiff(at, StartTime) - k * IntervalMs

\* C14: lag behind the grid is caught up: when a tick's processing took at
\* most the interval, the next tick starts within one interval of the grid
\* or with less lag than this tick had.
C14_LagIsCaughtUp ==
    [][(pc = "sleep" /\ pc' = "start" /\ TDiff(clock, t0) <= IntervalMs) =>
          \/ Lag(clock', ticks) <= IntervalMs
          \/ Lag(clock', ticks) < Lag(t0, ticks - 1)]_vars

\* the identity adapters invoked in this tick, in order
IdentityCalls ==
    SelectSeq(calls, LAMBDA c : c \in { "get_gateway_pid", "get_browser_pid" })

\* C15: a tick invokes the identity adapters, gateway then browser and each
\* once, when it is the first tick or starts more than 30 s after the tick of
\* the previous refresh, and records its start as the time of the refresh;
\* any other tick invokes neither and leaves the cached identities and the
\* refresh time as they were; nothing else in the loop touches them.
C15_RefreshCadence ==
    /\ [](IdentityCalls \in { << >>, << "get_gateway_pid", "get_browser_pid" >> })
    /\ [][/\ (pc = "start" /\ pc' = "status") =>
                IF ticks = 0 \/ TDiff(clock, last_pid_refresh) > 30 * 1000
                THEN /\ calls' = << "get_gateway_pid", "get_browser_pid" >>
                     /\ last_pid_refresh' = t0'
                ELSE /\ calls' = << >>
                     /\ UNCHANGED << gateway_pid, browser_pid, last_pid_refresh >>
          /\ (pc /= "start" /\ pc' \in LoopPcs) =>
                /\ UNCHANGED << gateway_pid, browser_pid, last_pid_refresh >>
                /\ IdentityCalls' = IdentityCalls]_vars

\* C15 witness: the second tick started within 30 s of the first and made no
\* refresh; the third started more than 30 s after the first and has just
\* refreshed, with an identity cached.
C15_Witness ==
    /\ pc = "status"
    /\ Len(done) = 2
    /\ TDiff(done[2], done[1]) <= 30 * 1000
    /\ TDiff(t0, done[1]) > 30 * 1000
    /\ refreshed.made
    /\ last_pid_refresh = t0
    /\ calls = << "get_gateway_pid", "get_browser_pid" >>
    /\ gateway_pid /= None

\* C16: pick_primary_session returns no session exactly when none is
\* reported; otherwise it returns a reported session whose updatedAt no other
\* exceeds and that comes before every other session with that updatedAt.  Of
\* updatedAt 100 and 200 it returns the 200; of a tie at 150 the first, in
\* whichever order the two are reported.
C16_PrimarySession ==
    (pc = "pick" /\ op.name = "pick") =>
        LET r == op.recent
            p == op.picked
        IN  /\ (r = << >>) <=> (p = None)
            /\ (r /= << >>) =>
                  \E i \in 1..Len(r) :
                      /\ p = Some(r[i])
                      /\ \A j \in 1..Len(r) : UpdatedAt(r[j]) <= UpdatedAt(r[i])
                      /\ \A j \in 1..(i - 1) : UpdatedAt(r[j]) < UpdatedAt(r[i])
            /\ (r = << SessA, SessB >>) => p = Some(SessB)
            /\ (r = << SessB, SessA >>) => p = Some(SessB)
            /\ (r = << SessC, SessD >>) => p = Some(SessC)
            /\ (r = << SessD, SessC >>) => p = Some(SessD)

\* C16 witness: of three sessions the later two tie at the greatest
\* updatedAt, and the first of the two is returned.
C16_Witness ==
    /\ pc = "pick"
    /\ op.name = "pick"
    /\ op.recent = << SessA, SessD, SessC >>
    /\ op.picked = Some(SessD)

\* C17: the carry-forward state is all-absent until a live sample with a
\* session identifier or a total arrives and is afterwards the latest such
\* sample; the status step replaces it by the live sample exactly when that
\* sample has a signal, every other step of the loop leaves it alone, and it
\* never goes back to all-absent.
C17_CarryForwardState ==
    /\ [](pc \in LoopPcs =>
             last_good_status = (IF seen = None THEN AbsentStatus ELSE seen[1]))
    /\ [][/\ (pc = "status" /\ pc' = "net") =>
                IF ~live'.raised /\ HasSignal(live'.sample)
                THEN last_good_status' = live'.sample
                ELSE last_good_status' = last_good_status
          /\ (pc /= "status" /\ pc' \in LoopPcs) => last_good_status' = last_good_status
          /\ (last_good_status /= AbsentStatus /\ pc' \in LoopPcs) =>
                last_good_status' /= AbsentStatus]_vars

\* C17 witness: after a meaningful sample, a fetch succeeded with a sample
\* that has other fields but neither signal; the carry-forward state is still
\* the meaningful sample.
C17_Witness ==
    /\ pc = "net"
    /\ ~live.raised
    /\ ~HasSignal(live.sample)
    /\ live.sample /= AbsentStatus
    /\ seen /= None
    /\ last_good_status = seen[1]
    /\ last_good_status /= AbsentStatus

\* ts_ms is inside the retention window at the present time
InWindow(t) ==
    \/ t.d > clock.d - keep_days
    \/ (t.d = clock.d - keep_days /\ t.ms >= clock.ms)

\* the number of ticks that have committed
Completed == IF pc \in { "sleep", "start" } THEN ticks ELSE ticks - 1

\* C18: the ticks that committed have pairwise distinct ts_ms, and each that
\* is inside the retention window has exactly one stored row, so when all are
\* inside the store holds as many rows of this run as ticks committed; a
\* stored row disappears or changes only at a commit and only when it is
\* older than the window; a tick's prune keeps the tick's own row when that
\* row is inside the window.
C18_RowLifecycle ==
    /\ [](pc \in LoopPcs =>
             /\ Len(done) = Completed
             /\ \A i, j \in 1..Len(done) : (i /= j) => done[i] /= done[j]
             /\ \A i \in 1..Len(done) :
                   InWindow(done[i]) => Cardinality({ r \in store : r.ts_ms = done[i] }) = 1
             /\ (\A i \in 1..Len(done) : InWindow(done[i])) =>
                   Cardinality({ r \in store : ~TLess(r.ts_ms, StartTime) }) = Completed)
    /\ [][/\ \A r \in store : (r \notin store') => (pc = "commit" /\ ~InWindow(r.ts_ms))
          /\ (pc = "prune" /\ pc' = "commit" /\ InWindow(ts)) =>
                { r \in txn' : r.ts_ms = ts } = { Row(ts, s, net_rx, net_tx) }]_vars

\* C18 witness: three ticks committed with a 90-day window: the store holds
\* their three rows, and the two rows that grew older than 90 days are gone.
C18_Witness ==
    /\ pc = "sleep"
    /\ keep_days = 90
    /\ Len(done) = 3
    /\ Cardinality({ r \in store : \E i \in 1..3 : r.ts_ms = done[i] }) = 3
    /\ ~ \E r \in store : r.ts_ms \in { Time(109, 0), Time(110, 500) }
    /\ \E r \in store : r.ts_ms = Time(199, 0)

\* C19: a warning is printed only in the status step of a tick whose fetch
\* failed; the start times of any two ticks that printed one are at least
\* 60 s apart; printed or not, the failed tick takes the carry-forward state
\* as its sample, writes it to its row, and leaves the carry-forward state
\* and the identity cache as they were.
C19_WarningsRateLimited ==
    /\ [](\A a, b \in warned :
             (a /= b) => (TDiff(a, b) >= 60 * 1000 \/ TDiff(b, a) >= 60 * 1000))
    /\ []((RowWritten /\ live.raised) =>
             \A r \in RowsOfTick : StatusOf(r) = last_good_status)
    /\ [][/\ (warned' /= warned /\ pc' \in LoopPcs) =>
                (pc = "status" /\ live'.raised /\ warned' = warned \cup { t0 })
          /\ (pc = "status" /\ pc' = "net" /\ live'.raised) =>
                /\ s' = last_good_status
                /\ UNCHANGED << last_good_status, gateway_pid, browser_pid,
                                last_pid_refresh >>]_vars

\* C19 witness: the first tick failed and printed a warning; the second
\* failed 45 s later and printed none; the third failed more than 60 s after
\* the first and printed the second warning.
C19_Witness ==
    /\ pc = "net"
    /\ live.raised
    /\ Len(done) = 2
    /\ warned = { done[1], t0 }
    /\ TDiff(done[2], done[1]) < 60 * 1000
    /\ TDiff(t0, done[1]) > 60 * 1000
    /\ \E r \in store : r.ts_ms = done[2] /\ StatusOf(r) = AbsentStatus

\* C20: a refresh leaves in the cache what its two lookups returned, absence
\* for a lookup that failed whatever was cached before, and records the
\* tick's start as the refresh time also when both failed; an identity that
\* is absent is not asked of nettop, and no tick that starts within 30 s of
\* the refresh looks the identities up again.
C20_IdentityCacheOverwritten ==
    /\ [](refreshed.made =>
             /\ (refreshed.g.kind = "fail") => gateway_pid = None
             /\ (refreshed.g.kind /= "fail") => gateway_pid = refreshed.g.pid
             /\ (refreshed.b.kind = "fail") => browser_pid = None
             /\ (refreshed.b.kind /= "fail") => browser_pid = refreshed.b.pid
             /\ last_pid_refresh = t0)
    /\ []((pc \in LoopPcs /\ gateway_pid = None) =>
             \A i \in 1..Len(calls) : calls[i] /= "nettop:gateway")
    /\ []((pc \in LoopPcs /\ browser_pid = None) =>
             \A i \in 1..Len(calls) : calls[i] /= "nettop:browser")
    /\ [][(pc = "start" /\ pc' = "status" /\ ticks > 0
              /\ TDiff(clock, last_pid_refresh) <= 30 * 1000) =>
             /\ ~refreshed'.made
             /\ calls' = << >>
             /\ UNCHANGED << gateway_pid, browser_pid, last_pid_refresh >>]_vars

\* C20 witness: both identities were cached and queried (a stored row holds
\* the sum of two per-process answers); the refresh of the third tick found
\* both lookups failing, and the cache now holds neither, with the refresh
\* time set to this tick's start.
C20_Witness ==
    /\ pc = "status"
    /\ ticks = 3
    /\ refreshed.made
    /\ refreshed.g.kind = "fail"
    /\ refreshed.b.kind = "fail"
    /\ gateway_pid = None
    /\ browser_pid = None
    /\ last_pid_refresh = t0
    /\ \E r \in store : r.net_rx_bytes = Some(6) /\ r.net_tx_bytes = Some(8)

====
